---- MODULE Spec2Model ----
(***************************************************************************)
(* Model of the subcluster selection stage of the FAQ generation pipeline  *)
(* (src/_3_select_tickets): k selection, subcluster generation, global     *)
(* ranking and selection, centroid ranking.                                *)
(*                                                                         *)
(* Real numbers are exact rationals.  A silhouette score, a cohesion, a    *)
(* separation and a cosine similarity are integers in hundredths; a        *)
(* normalized size and a composite score are pairs <<num, den>>, den > 0.  *)
(* The third-party calls (KMeans, silhouette_score, PCA) are not code of   *)
(* the repository: what they return for one embedding matrix is an input,  *)
(* drawn from a bounded family, and fixed for that matrix (random_state=42 *)
(* at both call sites).                                                    *)
(***************************************************************************)
EXTENDS Integers, Sequences, FiniteSets, TLC

VARIABLES
    \* ---- one call of compute_best_k(X, total)
    X,                        \* the embedding matrix, as what the library computes from it
    total,                    \* number of rows of X
    best_k,                   \* the returned k; 0 while the call has not returned
    \* ---- generate_subclusters
    cluster_counts,           \* df_merged['cluster'].value_counts(): <<[cluster, total]>>
    gi,                       \* number of parent clusters the loop has taken
    ks,                       \* ks[i]: the k compute_best_k returned for the i-th cluster
    labels,                   \* labels of the last subclustered parent cluster
    global_subcluster_stats,  \* the accumulator
    gen_pc,                   \* "loop" | "returned" | "error"
    \* ---- select_top_subclusters
    top_faq_subclusters,      \* returned list: indices into the accumulator (references)
    sel_pc,                   \* "idle" | "returned" | "error"
    runs,                     \* number of calls of select_top_subclusters so far
    first_run,                \* what the first call returned, with the values it stored
    \* ---- get_top_entries_by_centroid
    similarities,             \* cosine similarity of each member to the centroid
    df,                       \* the subcluster's rows: [issue_summary, resolution]
    top_indices,              \* 0-based member indices, most similar first
    top_summaries,
    top_resolutions,
    rank_pc,                  \* "call" | "returned" | "stored"
    \* ---- save_subclusters
    csv_file,                 \* the rows written to the subclusters CSV
    save_pc,                  \* "idle" | "saved"
    \* ---- faq_gen
    df_tickets,               \* the frame read from the CSV, lists split
    faq_i,                    \* rows the generation loop has taken
    faq_entries,              \* the FAQ entries appended so far
    faq_pc,                   \* "idle" | "load" | "loop" | "done" | "error"
    body_lines,               \* build_faq_prompt: the numbered pairs of the last prompt
    \* ---- one call of compute_cohesion(embeddings)
    coh_embeddings,           \* the argument: the direction of each row's vector
    coh_result,               \* the value returned
    coh_pc,                   \* "idle" | "call" | "returned" | "error"
    \* ---- process_tickets: the calls of the text-generation API
    n_tickets,                \* number of rows of df_tickets, one prompt each
    batch_start,              \* rows the DataLoader has handed out
    api_prompts,              \* call_genai_api: the argument, each prompt as its row number
    api_i,                    \* call_genai_api: position of the prompt being requested
    attempt,                  \* call_genai_api: value of the attempt counter
    responses,                \* call_genai_api: the list returned
    api_log,                  \* the HTTP outcomes received in the call, per prompt
    results,                  \* list of generated summaries
    prompts,                  \* list of sent prompts
    retry_i,                  \* position of the retry pass over zip(prompts, results)
    retry_attempt,            \* attempt counter of the retry pass
    ticket_summary,           \* the column df_tickets["ticket_summary"]
    api_pc                    \* "idle" | "batch" | "call" | "returned" | "retry" |
                              \* "retry_call" | "retry_returned" | "assigned" | "error"

vars == <<X, total, best_k, cluster_counts, gi, ks, labels, global_subcluster_stats,
          gen_pc, top_faq_subclusters, sel_pc, runs, first_run, similarities, df,
          top_indices, top_summaries, top_resolutions, rank_pc, csv_file, save_pc,
          df_tickets, faq_i, faq_entries, faq_pc, body_lines, coh_embeddings, coh_result, coh_pc,
          n_tickets, batch_start, api_prompts, api_i, attempt, responses, api_log,
          results, prompts, retry_i, retry_attempt, ticket_summary, api_pc>>

bestk_vars == <<X, total, best_k>>
gen_vars == <<cluster_counts, gi, ks, labels, gen_pc>>
sel_vars == <<top_faq_subclusters, sel_pc, runs, first_run>>
rank_vars == <<similarities, df, top_indices, top_summaries, top_resolutions, rank_pc>>
save_vars == <<csv_file, save_pc>>
faq_vars == <<df_tickets, faq_i, faq_entries, faq_pc, body_lines>>
coh_vars == <<coh_embeddings, coh_result, coh_pc>>
api_vars == <<n_tickets, batch_start, api_prompts, api_i, attempt, responses, api_log,
              results, prompts, retry_i, retry_attempt, ticket_summary, api_pc>>

\* ------------------------------------------------------------------ bounds
\* Number of parent clusters of one run.
MaxGroups == 2
\* Length of the freely enumerated accumulators.
MaxSmallAcc == 4
\* Length of the longest patterned accumulator is NUM_FAQs + 2 + MaxExtra.
MaxExtra == 2
\* Calls of select_top_subclusters on one accumulator.
MaxRuns == 2
\* Members of a subcluster handed to the centroid ranker.
MaxMembers == 3
\* Resolutions of a record handed to save_subclusters.
MaxItems == 2
\* Rows of one run of the FAQ generation loop that end without an entry.
MaxMissing == 2
\* Rows of the matrix handed to one call of compute_cohesion.
MaxVectors == 3
\* Rows of df_tickets whose prompts are sent to the text-generation API.
MaxPrompts == 3

\* ------------------------------------------------------------------ program constants
\* cluster_helper.py:47   np.any(counts < 5)
MIN_COUNT == 5
\* cluster_helper.py:47   max_prop > 0.85, in hundredths
MAX_PROP == 85
\* cluster_helper.py:40   range(2, 5)
K_FIRST == 2
K_STOP == 5
\* generate_subclusters.py:71   PCA(n_components=10)
N_COMPONENTS == 10
\* select_subclusters.py:16-19, sizes in thousandths
MIN_SIZE == 50
MAX_SIZE == 800
EPSILON == 1
NUM_FAQs == 20
\* generate_subclusters.py:162-164, weights in tenths
SIZE_WEIGHT == 4
COHESION_WEIGHT == 12
SEPARATION_WEIGHT == 2
\* faq_gen.py:211   num = min(15, len(df_tickets))
FAQ_LIMIT == 15
\* faq_gen.py:215   for _ in range(5)
NUM_CANDIDATES == 5

\* ------------------------------------------------------------------ helpers
RECURSIVE SumSeq(_)
SumSeq(s) == IF s = <<>> THEN 0 ELSE Head(s) + SumSeq(Tail(s))

SetMax(S) == CHOOSE m \in S : \A x \in S : x <= m
SetMin(S) == CHOOSE m \in S : \A x \in S : m <= x

RECURSIVE Gcd(_, _)
Gcd(a, b) == IF b = 0 THEN a ELSE Gcd(b, a % b)
Lcm(a, b) == (a \div Gcd(a, b)) * b

\* Rationals <<num, den>>, den > 0, compared and added over the least common
\* denominator.
RatLess(a, b) ==
    IF a[2] = b[2] THEN a[1] < b[1]
    ELSE LET l == Lcm(a[2], b[2])
         IN  a[1] * (l \div a[2]) < b[1] * (l \div b[2])
RatGeq(a, b) == ~RatLess(a, b)
RatEq(a, b) == ~RatLess(a, b) /\ ~RatLess(b, a)
RatAdd(a, b) ==
    IF a[2] = b[2] THEN <<a[1] + b[1], a[2]>>
    ELSE LET l == Lcm(a[2], b[2])
         IN  <<a[1] * (l \div a[2]) + b[1] * (l \div b[2]), l>>
\* The same rational in lowest terms.
RatNorm(a) ==
    LET g == Gcd(IF a[1] < 0 THEN -a[1] ELSE a[1], a[2])
    IN  <<a[1] \div g, a[2] \div g>>

\* keys: a sequence of rationals.  The indices of keys, ordered by key descending,
\* equal keys in their original order.  This is list.sort(key=-score) and
\* sorted(..., reverse=True): both are stable.
InsertDesc(keys, i, sorted) ==
    LET after == {p \in 1..Len(sorted) : RatGeq(keys[sorted[p]], keys[i])}
        n == Cardinality(after)
    IN  SubSeq(sorted, 1, n) \o <<i>> \o SubSeq(sorted, n + 1, Len(sorted))

RECURSIVE SortPrefixDesc(_, _)
SortPrefixDesc(keys, n) ==
    IF n = 0 THEN <<>> ELSE InsertDesc(keys, n, SortPrefixDesc(keys, n - 1))

StableSortDesc(keys) == SortPrefixDesc(keys, Len(keys))

\* ------------------------------------------------------------------ compute_best_k
\* KMeans(n_clusters=k, random_state=42, n_init=50).fit(X).labels_
KMeansLabels(x, k) == x.fit[k]

\* silhouette_score(X, labels) for the labels of k
silhouette_score(x, k) == x.sil[k]

\* np.unique(labels, return_counts=True): the labels present, and how often each
Unique(lbls) == {lbls[i] : i \in DOMAIN lbls}
Counts(lbls) == [c \in Unique(lbls) |-> Cardinality({i \in DOMAIN lbls : lbls[i] = c})]

\* if np.any(counts < 5) or max_prop > 0.85: continue
RejectedMissingCeiling(lbls, tot) ==
    LET counts == Counts(lbls)
    IN  \E c \in DOMAIN counts : counts[c] < MIN_COUNT

RejectedFloorOffByOne(lbls, tot) ==
    LET counts == Counts(lbls)
        cmax == SetMax({counts[c] : c \in DOMAIN counts})
    IN  \/ \E c \in DOMAIN counts : counts[c] < MIN_COUNT - 1
        \/ 100 * cmax > MAX_PROP * tot

Rejected(lbls, tot) ==
    LET counts == Counts(lbls)
        cmax == SetMax({counts[c] : c \in DOMAIN counts})
    IN  \/ \E c \in DOMAIN counts : counts[c] < MIN_COUNT
        \/ 100 * cmax > MAX_PROP * tot

\* candidate_scores after the loop over k: <<k, silo_score>> of the survivors, in k order
RECURSIVE CandidateScores(_, _, _)
CandidateScores(x, tot, k) ==
    IF k >= K_STOP THEN <<>>
    ELSE IF Rejected(KMeansLabels(x, k), tot)
         THEN CandidateScores(x, tot, k + 1)
         ELSE <<<<k, silhouette_score(x, k)>>>> \o CandidateScores(x, tot, k + 1)

\* The first surviving candidate, whatever its score.
compute_best_k_first_candidate(x, tot) ==
    LET candidate_scores == CandidateScores(x, tot, K_FIRST)
    IN  IF candidate_scores # <<>> THEN candidate_scores[1][1] ELSE 1

compute_best_k(x, tot) ==
    LET candidate_scores == CandidateScores(x, tot, K_FIRST)
        order == StableSortDesc([i \in DOMAIN candidate_scores |->
                                     <<candidate_scores[i][2], 100>>])
    IN  IF candidate_scores # <<>>
        THEN candidate_scores[order[1]][1]
        ELSE 1

\* ------------------------------------------------------------------ library results
\* A labelling in blocks: label c-1 for parts[c] consecutive rows.
BlockLabels(parts) ==
    [i \in 1..SumSeq(parts) |->
        (CHOOSE c \in 1..Len(parts) :
            /\ SumSeq(SubSeq(parts, 1, c - 1)) < i
            /\ i <= SumSeq(SubSeq(parts, 1, c))) - 1]

\* The labellings of n rows into k non-empty classes the model draws from: k-1
\* classes of a size in `small`, the last (r = 0) or the first (r = 1) the rest.
Labellings(n, k, small, r) ==
    {BlockLabels(IF r = 0 THEN p \o <<n - SumSeq(p)>> ELSE <<n - SumSeq(p)>> \o p) :
        p \in {q \in [1..(k - 1) -> small] : n - SumSeq(q) >= 1}}

Ks == K_FIRST..(K_STOP - 1)
SmallParts == {MIN_COUNT - 1, MIN_COUNT, MIN_COUNT + 1}
GenSmallParts == {MIN_COUNT - 1, MIN_COUNT}
\* Silhouette scores per k: rising, falling, all equal, and a tie at the top.
SilFamily == {[k \in Ks |-> 10 * k], [k \in Ks |-> 50 - 10 * k], [k \in Ks |-> 30],
              [k \in Ks |-> IF k = K_FIRST THEN 10 ELSE 40]}
GenSilFamily == {[k \in Ks |-> 10 * k], [k \in Ks |-> 50 - 10 * k]}
\* 16: no class of 5 for k = 4.  20: k = 4 fits exactly.  35: 30 of 35 is above 85%.
\* 40: 34 of 40 is exactly 85%.
GroupSizes == {16, 20, 35, 40}
\* 8: fewer rows than PCA components.
GenGroupSizes == {8, 16, 20, 40}

\* Unit vectors, coordinates in fifths: the directions a row's embedding can have.
\* The dot products of the first four are 0, 0.6, 0.8, 0.96 and 1; the last two
\* point the other way.
UnitVectors == <<<<5, 0>>, <<0, 5>>, <<3, 4>>, <<4, 3>>, <<-5, 0>>, <<-3, -4>>>>
\* The direction of each of n rows.
Directions(n) == [i \in 1..n |-> 1 + ((i + (i \div 5) + (i \div 7)) % 4)]

\* What the library computes from one embedding matrix of n rows: the labels
\* KMeans fits for each k, and the silhouette score of each of these labellings;
\* dir is the direction of each row's vector, which decides its cosine similarities.
Embeddings(n, small, sils) ==
    {[fit |-> [k \in Ks |-> f[k - K_FIRST + 1]], sil |-> s, dir |-> Directions(n)] :
        f \in UNION {Labellings(n, K_FIRST, small, r) \X Labellings(n, K_FIRST + 1, small, r)
                        \X Labellings(n, K_FIRST + 2, small, r) : r \in {0, 1}},
        s \in sils}

\* The embedding matrices of generate_subclusters: as Embeddings, with the k-1 small
\* classes of a labelling all of one size of GenSmallParts.
GenLabellings(n, k, r) ==
    {BlockLabels(IF r = 0 THEN p \o <<n - SumSeq(p)>> ELSE <<n - SumSeq(p)>> \o p) :
        p \in {q \in {[i \in 1..(k - 1) |-> c] : c \in GenSmallParts} : n - SumSeq(q) >= 1}}
GenEmbeddings(n) ==
    {[fit |-> [k \in Ks |-> f[k - K_FIRST + 1]], sil |-> s, dir |-> Directions(n)] :
        f \in UNION {GenLabellings(n, K_FIRST, r) \X GenLabellings(n, K_FIRST + 1, r)
                        \X GenLabellings(n, K_FIRST + 2, r) : r \in {0, 1}},
        s \in GenSilFamily}

\* ------------------------------------------------------------------ idle parts
BestKIdle == X = <<>> /\ total = 0 /\ best_k = 0
GenIdle == cluster_counts = <<>> /\ gi = 0 /\ ks = <<>> /\ labels = <<>> /\ gen_pc = "idle"
SelIdle == top_faq_subclusters = <<>> /\ sel_pc = "idle" /\ runs = 0 /\ first_run = <<>>
RankIdle ==
    /\ similarities = <<>> /\ df = <<>> /\ top_indices = <<>>
    /\ top_summaries = <<>> /\ top_resolutions = <<>> /\ rank_pc = "idle"
SaveIdle == csv_file = <<>> /\ save_pc = "idle"
FaqIdle ==
    /\ df_tickets = <<>> /\ faq_i = 0 /\ faq_entries = <<>> /\ faq_pc = "idle"
    /\ body_lines = <<>>
CohIdle == coh_embeddings = <<>> /\ coh_result = <<0, 1>> /\ coh_pc = "idle"
ApiIdle ==
    /\ n_tickets = 0 /\ batch_start = 0 /\ api_prompts = <<>> /\ api_i = 0 /\ attempt = 0
    /\ responses = <<>> /\ api_log = <<>> /\ results = <<>> /\ prompts = <<>>
    /\ retry_i = 0 /\ retry_attempt = 0 /\ ticket_summary = <<>> /\ api_pc = "idle"

\* ------------------------------------------------------------------ SpecBestK
\* One call of compute_best_k on every embedding matrix of the family.
InitBestK ==
    /\ total \in GroupSizes
    /\ X \in Embeddings(total, SmallParts, SilFamily)
    /\ best_k = 0
    /\ GenIdle /\ global_subcluster_stats = <<>> /\ SelIdle /\ RankIdle /\ SaveIdle /\ FaqIdle /\ CohIdle /\ ApiIdle

ComputeBestK ==
    /\ best_k = 0
    /\ best_k' = compute_best_k(X, total)
    /\ UNCHANGED <<X, total, global_subcluster_stats>>
    /\ UNCHANGED <<gen_vars, sel_vars, rank_vars, save_vars, faq_vars, coh_vars, api_vars>>

NextBestK == ComputeBestK
SpecBestK == InitBestK /\ [][NextBestK]_vars

\* Sizes of the k label classes 0..k-1 of a labelling, counted row by row.
ClassSize(lbls, c) == Cardinality({i \in DOMAIN lbls : lbls[i] = c})
WithinBounds(lbls, k, n) ==
    \A c \in 0..(k - 1) :
        /\ ClassSize(lbls, c) >= 5
        /\ 100 * ClassSize(lbls, c) <= 85 * n

\* C1: compute_best_k never returns a k in {2,3,4} whose partition has a class of
\* fewer than 5 rows or a largest class above 85% of the rows, and it returns 1
\* exactly when every k in {2,3,4} breaks one of the two bounds.
C1_BestKWithinBounds ==
    best_k # 0 =>
        /\ best_k \in {1} \cup (2..4)
        /\ best_k \in 2..4 => WithinBounds(X.fit[best_k], best_k, total)
        /\ best_k = 1 <=> \A k \in 2..4 : ~WithinBounds(X.fit[k], k, total)

\* k = 2 was rejected for its largest class alone (no class below 5), k = 3 returned.
C1_Witness ==
    /\ best_k = 3
    /\ \A c \in 0..1 : ClassSize(X.fit[2], c) >= 5
    /\ ~WithinBounds(X.fit[2], 2, total)

\* C19: the k returned survived the filter, and no k in 2..4 that survived the
\* filter has a strictly higher silhouette score.
C19_HighestSilhouette ==
    best_k \in 2..4 =>
        /\ WithinBounds(X.fit[best_k], best_k, total)
        /\ \A k \in 2..4 :
              WithinBounds(X.fit[k], k, total) => X.sil[k] <= X.sil[best_k]

\* k = 2 and k = 3 both survived, and k = 3 was returned for its higher score.
C19_Witness ==
    /\ best_k = 3
    /\ WithinBounds(X.fit[2], 2, total)
    /\ X.sil[2] < X.sil[3]

\* ------------------------------------------------------------------ generate_subclusters
\* labels, centroids = helper.subcluster_embeddings_kmeans(embeddings, k=k): the same
\* KMeans parameters on the same matrix as in compute_best_k.  KMeans with one
\* cluster labels every row 0.
subcluster_embeddings_kmeans(x, k) ==
    IF k = 1 THEN [i \in DOMAIN x.fit[K_FIRST] |-> 0] ELSE KMeansLabels(x, k)

\* if k == 1: continue
SkipNever(k) == FALSE
SkipOnZero(k) == k = 0
SkipCluster(k) == k = 1

\* mask = (labels == sub_id)
MaskUpTo(lbls, sub_id) == [i \in DOMAIN lbls |-> lbls[i] <= sub_id]
Mask(lbls, sub_id) == [i \in DOMAIN lbls |-> lbls[i] = sub_id]

\* cluster_df[mask].reset_index(drop=True): the rows the mask keeps, in order.  A row
\* of cluster_df is its position, which also stands for its issue summary.
RECURSIVE RowsOf(_, _)
RowsOf(mask, n) ==
    IF n = 0 THEN <<>>
    ELSE IF mask[n] THEN Append(RowsOf(mask, n - 1), n) ELSE RowsOf(mask, n - 1)

\* cosine_similarity of two normalized vectors, in 25ths: their dot product.
cosine_similarity(u, v) ==
    UnitVectors[u][1] * UnitVectors[v][1] + UnitVectors[u][2] * UnitVectors[v][2]

\* np.sum(cosine_similarity(embeddings_a, embeddings_b)), in 25ths; the sum over the
\* first p rows of embeddings_a.
RECURSIVE RowSim(_, _, _)
RowSim(u, embeddings_b, q) ==
    IF q = 0 THEN 0
    ELSE cosine_similarity(u, embeddings_b[q]) + RowSim(u, embeddings_b, q - 1)
RECURSIVE TotalSim(_, _, _)
TotalSim(embeddings_a, embeddings_b, p) ==
    IF p = 0 THEN 0
    ELSE RowSim(embeddings_a[p], embeddings_b, Len(embeddings_b))
         + TotalSim(embeddings_a, embeddings_b, p - 1)

\* np.trace(sim_matrix), in 25ths
RECURSIVE Trace(_, _)
Trace(embeddings, p) ==
    IF p = 0 THEN 0
    ELSE cosine_similarity(embeddings[p], embeddings[p]) + Trace(embeddings, p - 1)

\* (total_sim - diagonal) / (n_samples * (n_samples - 1)); 0/0 for a single row is nan.
compute_cohesion_with_diagonal(embeddings) ==
    LET n_samples == Len(embeddings)
        total_sim == TotalSim(embeddings, embeddings, n_samples)
    IN  IF n_samples <= 1 THEN "nan"
        ELSE RatNorm(<<total_sim, 25 * n_samples * (n_samples - 1)>>)
compute_cohesion_unordered_pairs(embeddings) ==
    LET n_samples == Len(embeddings)
        total_sim == TotalSim(embeddings, embeddings, n_samples)
        diagonal == Trace(embeddings, n_samples)
    IN  IF n_samples <= 1 THEN "nan"
        ELSE RatNorm(<<2 * (total_sim - diagonal), 25 * n_samples * (n_samples - 1)>>)
compute_cohesion(embeddings) ==
    LET n_samples == Len(embeddings)
        total_sim == TotalSim(embeddings, embeddings, n_samples)
        diagonal == Trace(embeddings, n_samples)
    IN  IF n_samples <= 1 THEN "nan"
        ELSE RatNorm(<<total_sim - diagonal, 25 * n_samples * (n_samples - 1)>>)

\* 1 - (total_sim / n_comparisons)
compute_separation(embeddings_a, embeddings_b) ==
    LET total_sim == TotalSim(embeddings_a, embeddings_b, Len(embeddings_a))
        n_comparisons == Len(embeddings_a) * Len(embeddings_b)
    IN  RatNorm(<<25 * n_comparisons - total_sim, 25 * n_comparisons>>)

\* np.mean of a non-empty list of rationals
RECURSIVE RatSum(_)
RatSum(xs) == IF xs = <<>> THEN <<0, 1>> ELSE RatAdd(Head(xs), RatSum(Tail(xs)))
Mean(xs) == RatNorm(<<RatSum(xs)[1], RatSum(xs)[2] * Len(xs)>>)

\* cluster_df['issue_summary'] and cluster_df['resolution'] of a row: texts (sequences
\* of symbols) that name the row; the resolution of every third row is missing.
IssueSummary(row) == <<"s", row>>
Resolution(row) == IF row % 3 = 0 THEN "NaN" ELSE <<"r", row>>

\* The first pass: subclusters[sub_id + 1] = {'sub_id', 'df', 'embeddings'}
Subclusters(x, lbls, k) ==
    [s \in 1..k |->
        LET sub_df == RowsOf(Mask(lbls, s - 1), Len(lbls))
        IN  [sub_id |-> s - 1, df |-> sub_df,
             embeddings |-> [p \in DOMAIN sub_df |-> x.dir[sub_df[p]]]]]

\* One cross similarity pooled over the rows of all the siblings together.
SeparationPooled(subclusters, s) ==
    LET others == SelectSeq(subclusters, LAMBDA o : o.sub_id # subclusters[s].sub_id)
        sims == [j \in DOMAIN others |->
                    TotalSim(subclusters[s].embeddings, others[j].embeddings,
                             Len(subclusters[s].embeddings))]
        pairs == [j \in DOMAIN others |->
                     Len(subclusters[s].embeddings) * Len(others[j].embeddings)]
    IN  IF others # <<>>
        THEN RatNorm(<<25 * SumSeq(pairs) - SumSeq(sims), 25 * SumSeq(pairs)>>)
        ELSE <<0, 1>>

\* separations = [compute_separation(a, other) for the other subclusters of the list];
\* separation = np.mean(separations) if separations else 0.0
Separation(subclusters, s) ==
    LET others == SelectSeq(subclusters, LAMBDA o : o.sub_id # subclusters[s].sub_id)
        separations == [j \in DOMAIN others |->
                           compute_separation(subclusters[s].embeddings, others[j].embeddings)]
    IN  IF separations # <<>> THEN Mean(separations) ELSE <<0, 1>>

\* The second pass stopping one subcluster early.
SubclusterRecordsButLast(cluster_id, x, lbls, k) ==
    LET subclusters == Subclusters(x, lbls, k)
    IN  [s \in 1..(k - 1) |->
            [cluster |-> cluster_id,
             subcluster_id |-> subclusters[s].sub_id,
             summaries |-> [p \in DOMAIN subclusters[s].df |->
                               IssueSummary(subclusters[s].df[p])],
             resolutions |-> SelectSeq([p \in DOMAIN subclusters[s].df |->
                                           Resolution(subclusters[s].df[p])],
                                       LAMBDA r : r # "NaN"),
             size |-> Len(subclusters[s].df),
             cohesion |-> compute_cohesion(subclusters[s].embeddings),
             separation |-> Separation(subclusters, s),
             embeddings |-> subclusters[s].embeddings]]

\* The records the second pass appends for one parent cluster, sub_id = 0..k-1.  The
\* summaries are those of the rows of sub_df in its order, the resolutions likewise
\* without the missing ones (dropna).
SubclusterRecords(cluster_id, x, lbls, k) ==
    LET subclusters == Subclusters(x, lbls, k)
    IN  [s \in 1..k |->
            [cluster |-> cluster_id,
             subcluster_id |-> subclusters[s].sub_id,
             summaries |-> [p \in DOMAIN subclusters[s].df |->
                               IssueSummary(subclusters[s].df[p])],
             resolutions |-> SelectSeq([p \in DOMAIN subclusters[s].df |->
                                           Resolution(subclusters[s].df[p])],
                                       LAMBDA r : r # "NaN"),
             size |-> Len(subclusters[s].df),
             cohesion |-> compute_cohesion(subclusters[s].embeddings),
             separation |-> Separation(subclusters, s),
             embeddings |-> subclusters[s].embeddings]]

\* One iteration of `for cluster_id, total in cluster_counts.items()`.
ProcessCluster ==
    /\ gen_pc = "loop"
    /\ gi < Len(cluster_counts)
    /\ LET cluster_id == cluster_counts[gi + 1].cluster
           n == cluster_counts[gi + 1].total
       IN  IF n < N_COMPONENTS
           THEN \* PCA(n_components=10) on fewer than 10 rows raises ValueError
                /\ gen_pc' = "error"
                /\ UNCHANGED <<gi, ks, labels, global_subcluster_stats>>
           ELSE \E embeddings \in GenEmbeddings(n) :
                    LET k == compute_best_k(embeddings, n)
                    IN  /\ gi' = gi + 1
                        /\ ks' = Append(ks, k)
                        /\ gen_pc' = "loop"
                        /\ IF SkipCluster(k)
                           THEN UNCHANGED <<labels, global_subcluster_stats>>
                           ELSE /\ labels' = subcluster_embeddings_kmeans(embeddings, k)
                                /\ global_subcluster_stats' =
                                       global_subcluster_stats
                                       \o SubclusterRecords(cluster_id, embeddings, labels', k)
    /\ UNCHANGED cluster_counts
    /\ UNCHANGED <<bestk_vars, sel_vars, rank_vars, save_vars, faq_vars, coh_vars, api_vars>>

\* return global_subcluster_stats
GenReturn ==
    /\ gen_pc = "loop"
    /\ gi = Len(cluster_counts)
    /\ gen_pc' = "returned"
    /\ UNCHANGED <<cluster_counts, gi, ks, labels, global_subcluster_stats>>
    /\ UNCHANGED <<bestk_vars, sel_vars, rank_vars, save_vars, faq_vars, coh_vars, api_vars>>

\* value_counts() lists the clusters by count, largest first.
ClusterCounts ==
    {[i \in 1..n |-> [cluster |-> 10 + i, total |-> t[i]]] :
        <<n, t>> \in {nt \in UNION {{m} \X [1..m -> GenGroupSizes] : m \in 1..MaxGroups} :
                        \A i \in 1..(nt[1] - 1) : nt[2][i] >= nt[2][i + 1]}}

InitGen ==
    /\ cluster_counts \in ClusterCounts
    /\ gi = 0 /\ ks = <<>> /\ labels = <<>> /\ gen_pc = "loop"
    /\ global_subcluster_stats = <<>>
    /\ BestKIdle /\ SelIdle /\ RankIdle /\ SaveIdle /\ FaqIdle /\ CohIdle /\ ApiIdle

NextGen == ProcessCluster \/ GenReturn
SpecGen == InitGen /\ [][NextGen]_vars

\* The accumulator's records of the i-th parent cluster.
RecordsOf(i) ==
    SelectSeq(global_subcluster_stats, LAMBDA s : s.cluster = cluster_counts[i].cluster)

\* C2: a parent cluster for which k selection returned 1 has no record in the
\* accumulator, during the loop and after it, and skipping it raises nothing: the
\* loop goes on, and the only error is PCA's on a cluster not yet taken.
C2_SkippedContributesNothing ==
    /\ Len(ks) = gi
    /\ \A i \in 1..Len(ks) : ks[i] = 1 => RecordsOf(i) = <<>>
    /\ gen_pc = "error" => gi < Len(cluster_counts) /\ cluster_counts[gi + 1].total < 10

\* The run returned, the last cluster was skipped, an earlier one was not.
C2_Witness ==
    /\ gen_pc = "returned"
    /\ Len(ks) = 2 /\ ks[1] > 1 /\ ks[2] = 1
    /\ global_subcluster_stats # <<>>

\* C3: for a subclustered parent cluster every row is in exactly one of its
\* records, the labels are 0..k-1, one per row, and the sizes of its records sum
\* to its row count.
C3_PartitionComplete ==
    /\ \A i \in 1..Len(ks) : ks[i] >= 2 =>
          LET recs == RecordsOf(i)
              n == cluster_counts[i].total
          IN  /\ SumSeq([j \in DOMAIN recs |-> recs[j].size]) = n
              /\ \A row \in 1..n :
                    Cardinality({<<j, p>> \in (DOMAIN recs) \X (1..n) :
                                    p \in DOMAIN recs[j].summaries
                                    /\ recs[j].summaries[p] = IssueSummary(row)}) = 1
    /\ (gi > 0 /\ ks[gi] >= 2) =>
          /\ DOMAIN labels = 1..cluster_counts[gi].total
          /\ \A r \in DOMAIN labels : labels[r] \in 0..(ks[gi] - 1)

\* Two clusters were subclustered, the second into three.
C3_Witness ==
    /\ gen_pc = "returned"
    /\ Len(ks) = 2 /\ ks[1] >= 2 /\ ks[2] = 3

\* C4: every record of the accumulator has at least 5 rows and at most 85% of the
\* rows of its parent cluster.
C4_RecordsWithinBounds ==
    \A i \in 1..Len(ks) :
        \A j \in DOMAIN RecordsOf(i) :
            /\ RecordsOf(i)[j].size >= 5
            /\ 100 * RecordsOf(i)[j].size <= 85 * cluster_counts[i].total

\* A cluster of 40 rows was split in two or more, one subcluster of exactly 5 rows.
C4_Witness ==
    /\ gi > 0 /\ ks[gi] >= 2 /\ cluster_counts[gi].total = 40
    /\ \E j \in DOMAIN global_subcluster_stats : global_subcluster_stats[j].size = 5

\* The other records of the accumulator from the same parent cluster as record i.
Siblings(i) ==
    SelectSeq([j \in DOMAIN global_subcluster_stats |-> j],
              LAMBDA j : /\ j # i
                         /\ global_subcluster_stats[j].cluster = global_subcluster_stats[i].cluster)

\* Number of rows of record i whose vector has direction u.
DirCount(i, u) ==
    Cardinality({p \in DOMAIN global_subcluster_stats[i].embeddings :
                    global_subcluster_stats[i].embeddings[p] = u})

\* Sum of the cosine similarities of every row of record i with every row of record
\* j, in 25ths, counted direction by direction.
CrossSim(i, j) ==
    SumSeq([n \in 1..(Len(UnitVectors) * Len(UnitVectors)) |->
                   LET u == 1 + ((n - 1) \div Len(UnitVectors))
                       v == 1 + ((n - 1) % Len(UnitVectors))
                   IN  DirCount(i, u) * DirCount(j, v) * cosine_similarity(u, v)])

\* 1 - mean cross cosine similarity of records i and j
OneMinusMeanCross(i, j) ==
    LET pairs == global_subcluster_stats[i].size * global_subcluster_stats[j].size
    IN  <<25 * pairs - CrossSim(i, j), 25 * pairs>>

\* 1 - mean cosine similarity over all the cross pairs of record i with all siblings
PooledSeparation(i) ==
    LET sib == Siblings(i)
        pairs == SumSeq([p \in DOMAIN sib |->
                            global_subcluster_stats[i].size * global_subcluster_stats[sib[p]].size])
        sims == SumSeq([p \in DOMAIN sib |-> CrossSim(i, sib[p])])
    IN  <<25 * pairs - sims, 25 * pairs>>

\* C15: the separation stored in a record is the arithmetic mean, over the siblings
\* of the record taken one by one, of 1 - mean cross cosine similarity with that
\* sibling.
C15_SeparationMeanOfSiblings ==
    \A i \in DOMAIN global_subcluster_stats :
        LET sib == Siblings(i)
            total_sep == RatSum([p \in DOMAIN sib |-> OneMinusMeanCross(i, sib[p])])
        IN  /\ sib # <<>>
            /\ RatEq(global_subcluster_stats[i].separation,
                     <<total_sep[1], total_sep[2] * Len(sib)>>)

\* A record has siblings of different sizes and its stored separation is not the
\* pooled value.
C15_Witness ==
    \E i \in DOMAIN global_subcluster_stats :
        /\ \E p, q \in DOMAIN Siblings(i) :
              global_subcluster_stats[Siblings(i)[p]].size
                  # global_subcluster_stats[Siblings(i)[q]].size
        /\ ~RatEq(global_subcluster_stats[i].separation, PooledSeparation(i))

\* ------------------------------------------------------------------ compute_ranked_scores
\* MinMaxScaler().fit_transform(sizes): (size - min) / (max - min), and 0 for every
\* size when max = min (the scaler divides by 1 when the range is 0).
MinMaxOverMax(sizes, i) ==
    <<sizes[i], SetMax({sizes[j] : j \in DOMAIN sizes})>>
MinMax(sizes, i) ==
    LET lo == SetMin({sizes[j] : j \in DOMAIN sizes})
        hi == SetMax({sizes[j] : j \in DOMAIN sizes})
    IN  IF hi = lo THEN <<0, 1>> ELSE <<sizes[i] - lo, hi - lo>>

\* size_weight * normalized_size + cohesion_weight * cohesion + separation_weight * separation
\* with the weights in tenths; normalized_size, cohesion and separation are rationals.
ScoreWeightsSwapped(ns, cohesion, separation, size_weight, cohesion_weight, separation_weight) ==
    RatAdd(RatAdd(<<cohesion_weight * ns[1], 10 * ns[2]>>,
                  <<size_weight * cohesion[1], 10 * cohesion[2]>>),
           <<separation_weight * separation[1], 10 * separation[2]>>)
Score(ns, cohesion, separation, size_weight, cohesion_weight, separation_weight) ==
    RatAdd(RatAdd(<<size_weight * ns[1], 10 * ns[2]>>,
                  <<cohesion_weight * cohesion[1], 10 * cohesion[2]>>),
           <<separation_weight * separation[1], 10 * separation[2]>>)

\* The score added to the score a record already has.
compute_ranked_scores_accumulating(subclusters, size_weight, cohesion_weight, separation_weight) ==
    LET sizes == [i \in DOMAIN subclusters |-> subclusters[i].size]
    IN  [i \in DOMAIN subclusters |->
            LET s == subclusters[i]
                ns == MinMax(sizes, i)
                sc == Score(ns, s.cohesion, s.separation,
                            size_weight, cohesion_weight, separation_weight)
            IN  [f \in DOMAIN s \cup {"normalized_size", "score"} |->
                    IF f = "normalized_size" THEN ns
                    ELSE IF f = "score"
                         THEN IF "score" \in DOMAIN s
                              THEN RatAdd(s.score, sc)
                              ELSE sc
                         ELSE s[f]]]

\* No value for the records of an accumulator whose sizes are all equal.
compute_ranked_scores_no_fallback(subclusters, size_weight, cohesion_weight, separation_weight) ==
    LET sizes == [i \in DOMAIN subclusters |-> subclusters[i].size]
        degenerate == \A i, j \in DOMAIN sizes : sizes[i] = sizes[j]
    IN  [i \in DOMAIN subclusters |->
            LET s == subclusters[i]
                ns == MinMax(sizes, i)
            IN  [f \in DOMAIN s \cup (IF degenerate THEN {} ELSE {"normalized_size", "score"}) |->
                    IF f = "normalized_size" /\ ~degenerate THEN ns
                    ELSE IF f = "score" /\ ~degenerate
                         THEN Score(ns, s.cohesion, s.separation,
                                    size_weight, cohesion_weight, separation_weight)
                         ELSE s[f]]]

\* Every record gets (or gets again) the fields normalized_size and score.
compute_ranked_scores(subclusters, size_weight, cohesion_weight, separation_weight) ==
    LET sizes == [i \in DOMAIN subclusters |-> subclusters[i].size]
    IN  [i \in DOMAIN subclusters |->
            LET s == subclusters[i]
                ns == MinMax(sizes, i)
            IN  [f \in DOMAIN s \cup {"normalized_size", "score"} |->
                    IF f = "normalized_size" THEN ns
                    ELSE IF f = "score"
                         THEN Score(ns, s.cohesion, s.separation,
                                    size_weight, cohesion_weight, separation_weight)
                         ELSE s[f]]]

\* ------------------------------------------------------------------ select_top_subclusters
\* s.get("normalized_size", 0)
GetNormalizedSize(s) ==
    IF "normalized_size" \in DOMAIN s THEN s.normalized_size ELSE <<0, 1>>

\* normalized_size > MIN_SIZE + EPSILON and normalized_size < MAX_SIZE - EPSILON
KeepInclusive(s) ==
    /\ RatGeq(GetNormalizedSize(s), <<MIN_SIZE + EPSILON, 1000>>)
    /\ RatGeq(<<MAX_SIZE - EPSILON, 1000>>, GetNormalizedSize(s))
KeepNoUpperBound(s) ==
    RatLess(<<MIN_SIZE + EPSILON, 1000>>, GetNormalizedSize(s))
Keep(s) ==
    /\ RatLess(<<MIN_SIZE + EPSILON, 1000>>, GetNormalizedSize(s))
    /\ RatLess(GetNormalizedSize(s), <<MAX_SIZE - EPSILON, 1000>>)

\* filtered = [s for s in updated_subclusters if ...]: the records kept, as their
\* positions in the accumulator (the list holds the same dict objects).
RECURSIVE Filtered(_, _)
Filtered(subclusters, n) ==
    IF n = 0 THEN <<>>
    ELSE IF Keep(subclusters[n])
         THEN Append(Filtered(subclusters, n - 1), n)
         ELSE Filtered(subclusters, n - 1)

\* Insertion before the equal keys instead of after them.
InsertDescUnstable(keys, i, sorted) ==
    LET after == {p \in 1..Len(sorted) : RatLess(keys[i], keys[sorted[p]])}
        n == Cardinality(after)
    IN  SubSeq(sorted, 1, n) \o <<i>> \o SubSeq(sorted, n + 1, Len(sorted))
RECURSIVE SortPrefixUnstable(_, _)
SortPrefixUnstable(keys, n) ==
    IF n = 0 THEN <<>> ELSE InsertDescUnstable(keys, n, SortPrefixUnstable(keys, n - 1))
RankedUnstable(subclusters, filtered) ==
    LET order == SortPrefixUnstable([p \in DOMAIN filtered |-> subclusters[filtered[p]].score],
                                    Len(filtered))
    IN  [p \in DOMAIN filtered |-> filtered[order[p]]]

\* ranked = sorted(filtered, key=lambda x: x["score"], reverse=True)
Ranked(subclusters, filtered) ==
    LET order == StableSortDesc([p \in DOMAIN filtered |-> subclusters[filtered[p]].score])
    IN  [p \in DOMAIN filtered |-> filtered[order[p]]]

\* ranked[:NUM_FAQs]
TopSliceOneMore(ranked) ==
    SubSeq(ranked, 1, IF Len(ranked) < NUM_FAQs + 1 THEN Len(ranked) ELSE NUM_FAQs + 1)
TopSlice(ranked) ==
    SubSeq(ranked, 1, IF Len(ranked) < NUM_FAQs THEN Len(ranked) ELSE NUM_FAQs)

\* One call of select_top_subclusters(global_subcluster_stats).
SelectCall ==
    /\ IF global_subcluster_stats = <<>>
       THEN \* MinMaxScaler on an array of 0 samples raises ValueError
            /\ sel_pc' = "error"
            /\ UNCHANGED <<global_subcluster_stats, top_faq_subclusters, runs, first_run>>
       ELSE LET updated_subclusters ==
                    compute_ranked_scores(global_subcluster_stats,
                                          SIZE_WEIGHT, COHESION_WEIGHT, SEPARATION_WEIGHT)
                filtered == Filtered(updated_subclusters, Len(updated_subclusters))
                ranked == Ranked(updated_subclusters, filtered)
                top == TopSlice(ranked)
            IN  /\ global_subcluster_stats' = updated_subclusters
                /\ top_faq_subclusters' = top
                /\ sel_pc' = "returned"
                /\ runs' = runs + 1
                /\ first_run' =
                       IF runs = 0
                       THEN <<top, [p \in DOMAIN top |-> updated_subclusters[top[p]]]>>
                       ELSE first_run
    /\ UNCHANGED <<bestk_vars, gen_vars, rank_vars, save_vars, faq_vars, coh_vars, api_vars>>

\* The call, and further calls on the accumulator the call before left.
SelectTopSubclusters ==
    /\ sel_pc \in {"call", "returned"}
    /\ runs < MaxRuns
    /\ SelectCall

\* ---- the accumulators select_top_subclusters is called on
\* <<size, cohesion>> of a record.  5 and 1005 span a range of 1000: 56 is then at
\* 0.051, 804 at 0.799, 57 inside.
SelKinds == {<<5, 20>>, <<56, 20>>, <<57, 20>>, <<57, 90>>, <<804, 20>>, <<1005, 20>>}
SelRecord(i, size, cohesion, separation) ==
    [cluster |-> 10 + ((i + 1) \div 2), subcluster_id |-> (i + 1) % 2,
     size |-> size, cohesion |-> <<cohesion, 100>>, separation |-> <<separation, 100>>]

SmallAccs ==
    UNION {{[i \in 1..n |-> SelRecord(i, f[i][1], f[i][2], 50)] :
               f \in [1..n -> SelKinds]} : n \in 0..MaxSmallAcc}

\* Long accumulators: the smallest, the largest, then n - 2 records inside the bounds
\* with cohesion rising, falling, constant or alternating, and separation varying
\* or constant.
LongAccs ==
    {[i \in 1..n |->
         IF i = 1 THEN SelRecord(i, 5, 50, 50)
         ELSE IF i = 2 THEN SelRecord(i, 1005, 50, 50)
         ELSE SelRecord(i, 57 + ((i * pat) % 3),
                        CASE pat = 0 -> 10 + i
                          [] pat = 1 -> 90 - i
                          [] pat = 2 -> 50
                          [] OTHER -> 50 + (i % 2),
                        IF pat < 2 THEN 40 + 10 * (i % 3) ELSE 50)] :
        n \in (NUM_FAQs + 1)..(NUM_FAQs + 2 + MaxExtra), pat \in 0..3}

InitSel ==
    /\ global_subcluster_stats \in SmallAccs \cup LongAccs
    /\ top_faq_subclusters = <<>> /\ sel_pc = "call" /\ runs = 0 /\ first_run = <<>>
    /\ BestKIdle /\ GenIdle /\ RankIdle /\ SaveIdle /\ FaqIdle /\ CohIdle /\ ApiIdle

NextSel == SelectTopSubclusters
SpecSel == InitSel /\ [][NextSel]_vars

\* The records of the accumulator select_top_subclusters returned, in order.
Returned == [p \in DOMAIN top_faq_subclusters |-> global_subcluster_stats[top_faq_subclusters[p]]]
ReturnedSet == {top_faq_subclusters[p] : p \in DOMAIN top_faq_subclusters}

\* normalized_size against 0.051 and 0.799
AboveLower(s) == 1000 * s.normalized_size[1] > 51 * s.normalized_size[2]
BelowUpper(s) == 1000 * s.normalized_size[1] < 799 * s.normalized_size[2]
AtLower(s) == 1000 * s.normalized_size[1] = 51 * s.normalized_size[2]
AtUpper(s) == 1000 * s.normalized_size[1] = 799 * s.normalized_size[2]
Inside == {i \in DOMAIN global_subcluster_stats :
              AboveLower(global_subcluster_stats[i]) /\ BelowUpper(global_subcluster_stats[i])}

\* C5: every returned record has normalized_size strictly between 0.051 and 0.799
\* (so a record at 0.051 or at 0.799 exactly is not returned), and the filter removes
\* no record strictly inside: when at most NUM_FAQs = 20 records are inside, all of
\* them are returned.
C5_StrictInterval ==
    sel_pc = "returned" =>
        /\ \A i \in ReturnedSet : i \in Inside
        /\ \A i \in DOMAIN global_subcluster_stats :
              (AtLower(global_subcluster_stats[i]) \/ AtUpper(global_subcluster_stats[i]))
                  => i \notin ReturnedSet
        /\ Cardinality(Inside) <= 20 => Inside \subseteq ReturnedSet

\* A record at exactly 0.051 was left out and a record inside was returned.
C5_Witness ==
    /\ sel_pc = "returned"
    /\ \E i \in DOMAIN global_subcluster_stats :
          AtLower(global_subcluster_stats[i]) /\ i \notin ReturnedSet
    /\ ReturnedSet # {}

AccSizes == {global_subcluster_stats[i].size : i \in DOMAIN global_subcluster_stats}

\* C6: a record whose size is the smallest or the largest size of the accumulator is
\* never returned; an accumulator of one record or of equal sizes returns nothing.
C6_ExtremesExcluded ==
    sel_pc = "returned" =>
        /\ \A i \in ReturnedSet :
              /\ global_subcluster_stats[i].size # SetMin(AccSizes)
              /\ global_subcluster_stats[i].size # SetMax(AccSizes)
        /\ Cardinality(AccSizes) = 1 => top_faq_subclusters = <<>>

\* Records were returned from an accumulator that holds smaller and larger ones.
C6_Witness ==
    /\ sel_pc = "returned"
    /\ top_faq_subclusters # <<>>
    /\ Len(global_subcluster_stats) > Len(top_faq_subclusters) + 1

\* C7: the returned records are in non-increasing order of score, and two returned
\* records of equal score are in their order in the accumulator.
C7_SortedStable ==
    sel_pc = "returned" =>
        \A p, q \in DOMAIN top_faq_subclusters :
            p < q =>
                /\ ~RatLess(Returned[p].score, Returned[q].score)
                /\ RatEq(Returned[p].score, Returned[q].score)
                       => top_faq_subclusters[p] < top_faq_subclusters[q]

\* Two returned records tie and a third has a lower score.
C7_Witness ==
    /\ sel_pc = "returned"
    /\ \E p, q, r \in DOMAIN top_faq_subclusters :
          /\ p < q /\ q < r
          /\ RatEq(Returned[p].score, Returned[q].score)
          /\ RatLess(Returned[r].score, Returned[q].score)

C9_Idempotent ==
    (sel_pc = "returned" /\ runs >= 2) =>
        /\ top_faq_subclusters = first_run[1]
        /\ Returned = first_run[2]

\* The second call returned, and returned records.
C9_Witness ==
    /\ sel_pc = "returned" /\ runs = 2
    /\ Len(top_faq_subclusters) >= 2

C13_EqualSizesDefined ==
    (Cardinality(AccSizes) = 1 /\ sel_pc # "call") =>
        /\ sel_pc = "returned"
        /\ \A i \in DOMAIN global_subcluster_stats :
              LET s == global_subcluster_stats[i]
              IN  /\ "normalized_size" \in DOMAIN s /\ "score" \in DOMAIN s
                  /\ s.normalized_size[2] > 0 /\ s.normalized_size[1] = 0
                  /\ s.score[2] > 0
                  /\ RatEq(s.score, RatAdd(<<12 * s.cohesion[1], 10 * s.cohesion[2]>>,
                                           <<2 * s.separation[1], 10 * s.separation[2]>>))

\* Three records of one size were scored.
C13_Witness ==
    /\ sel_pc = "returned"
    /\ Cardinality(AccSizes) = 1
    /\ Len(global_subcluster_stats) = 3

RECURSIVE Perms(_)
Perms(S) ==
    IF S = {} THEN {<<>>}
    ELSE UNION {{<<x>> \o p : p \in Perms(S \ {x})} : x \in S}

\* Any permutation of the indices, whatever the similarities.
ArgsortsUnordered(sims) == Perms(0..(Len(sims) - 1))
Argsorts(sims) ==
    {a \in Perms(0..(Len(sims) - 1)) :
        \A p \in 1..(Len(a) - 1) : sims[a[p] + 1] <= sims[a[p + 1] + 1]}

\* [::-1]
NotReversed(a) == a
Reversed(a) == [p \in DOMAIN a |-> a[Len(a) + 1 - p]]

\* df.loc[top_indices, 'issue_summary'].tolist()
Summaries(rows, indices) == [p \in DOMAIN indices |-> rows[indices[p] + 1].issue_summary]

\* df.loc[top_indices, 'resolution'].dropna().tolist()
ResolutionsInRowOrder(rows, indices) ==
    LET all == [p \in DOMAIN rows |-> rows[p].resolution]
    IN  SelectSeq(all, LAMBDA r : r # "NaN")
Resolutions(rows, indices) ==
    LET all == [p \in DOMAIN indices |-> rows[indices[p] + 1].resolution]
    IN  SelectSeq(all, LAMBDA r : r # "NaN")

GetTopEntriesByCentroid ==
    /\ rank_pc = "call"
    /\ \E a \in Argsorts(similarities) :
          /\ top_indices' = Reversed(a)
          /\ top_summaries' = Summaries(df, top_indices')
          /\ top_resolutions' = Resolutions(df, top_indices')
    /\ rank_pc' = "returned"
    /\ UNCHANGED <<similarities, df, global_subcluster_stats>>
    /\ UNCHANGED <<bestk_vars, gen_vars, sel_vars, save_vars, faq_vars, coh_vars, api_vars>>

\* Similarities in hundredths.
SimValues == {30, 60, 90}
\* Row i of the subcluster (0-based): its summary is i, its resolution missing or <<"res", i>>.
Rows(n) ==
    {[i \in 1..n |-> [issue_summary |-> i - 1,
                      resolution |-> IF has[i] THEN <<"res", i - 1>> ELSE "NaN"]] :
        has \in [1..n -> BOOLEAN]}

\* ------------------------------------------------------------------ faq_gen.py: prompt
\* build_faq_prompt(summaries, resolutions, word_limit=2000); header_words is
\* len(header.split()).
word_limit == 2000
header_words == 504

\* len(text.split()) of a summary and of a resolution; one resolution is a long one.
SummaryWords(summary) == 20
ResolutionWords(resolution) == IF resolution[2] = 2 THEN 1500 ELSE 40

\* The loop over enumerate(zip(summaries, resolutions)) from position i on: one
\* numbered pair per position, until either list ends or the word limit would be passed.
RECURSIVE BodyFrom(_, _, _, _)
BodyFrom(summaries, resolutions, i, current_word_count) ==
    IF i > Len(summaries) \/ i > Len(resolutions) THEN <<>>
    ELSE LET entry_word_count ==
                 (3 + SummaryWords(summaries[i])) + (2 + ResolutionWords(resolutions[i]))
         IN  IF current_word_count + entry_word_count > word_limit THEN <<>>
             ELSE <<[i |-> i, summary |-> summaries[i], resolution |-> resolutions[i]]>>
                  \o BodyFrom(summaries, resolutions, i + 1,
                              current_word_count + entry_word_count)

\* The body of the prompt: "Issue Summary i: ..." and "Resolution i: ..." per pair.
build_faq_prompt(summaries, resolutions) ==
    BodyFrom(summaries, resolutions, 1, header_words)

InitRank ==
    /\ \E n \in 1..MaxMembers :
          /\ similarities \in [1..n -> SimValues]
          /\ df \in Rows(n)
    /\ top_indices = <<>> /\ top_summaries = <<>> /\ top_resolutions = <<>>
    /\ rank_pc = "call"
    /\ global_subcluster_stats = <<>>
    /\ BestKIdle /\ GenIdle /\ SelIdle /\ SaveIdle /\ FaqIdle /\ CohIdle /\ ApiIdle

\* global_subcluster_stats.append({...}) after the call of get_top_entries_by_centroid:
\* 'summaries' and 'resolutions' are read from sub_df, in its row order; the lists the
\* ranker returned are not used.  The numeric fields of the record are those of
\* SubclusterRecords.
StoreStats ==
    /\ rank_pc = "returned"
    /\ LET row_order == [p \in DOMAIN df |-> p - 1]
       IN  global_subcluster_stats' =
               Append(global_subcluster_stats,
                      [cluster |-> 11, subcluster_id |-> 0,
                       summaries |-> Summaries(df, row_order),
                       resolutions |-> Resolutions(df, row_order),
                       size |-> Len(df)])
    /\ rank_pc' = "stored"
    /\ UNCHANGED <<similarities, df, top_indices, top_summaries, top_resolutions>>
    /\ UNCHANGED <<bestk_vars, gen_vars, sel_vars, save_vars, faq_vars, coh_vars, api_vars>>

\* faq_gen.py builds the prompt of a subcluster from the two lists of its record; the
\* CSV file in between carries texts without separator and without blank ends unchanged.
BuildFaqPrompt ==
    /\ rank_pc = "stored"
    /\ LET stats == global_subcluster_stats[Len(global_subcluster_stats)]
       IN  body_lines' = build_faq_prompt(stats.summaries, stats.resolutions)
    /\ rank_pc' = "prompted"
    /\ UNCHANGED <<similarities, df, top_indices, top_summaries, top_resolutions>>
    /\ UNCHANGED <<df_tickets, faq_i, faq_entries, faq_pc, global_subcluster_stats>>
    /\ UNCHANGED <<bestk_vars, gen_vars, sel_vars, save_vars, coh_vars, api_vars>>

NextRank == GetTopEntriesByCentroid \/ StoreStats \/ BuildFaqPrompt
SpecRank == InitRank /\ [][NextRank]_vars

\* C10: the summaries are returned in order of similarity to the centroid, highest
\* first: the member at an earlier position is at least as similar as the member at
\* a later one.  A summary is its member's 0-based index.
C10_MostSimilarFirst ==
    rank_pc = "returned" =>
        /\ Len(top_summaries) = Len(similarities)
        /\ \A p, q \in DOMAIN top_summaries :
              p < q => similarities[top_summaries[p] + 1] >= similarities[top_summaries[q] + 1]

\* Similarities [0.9, 0.3, 0.6] gave the member order [0, 2, 1].
C10_Witness ==
    /\ rank_pc = "returned"
    /\ similarities = <<90, 30, 60>>
    /\ top_summaries = <<0, 2, 1>>

\* C20 as stated: two members of equal similarity are returned in their original
\* index order, the lower index first.
C20_StableTieBreak ==
    rank_pc # "call" =>
        \A p, q \in DOMAIN top_indices :
            (p < q /\ similarities[top_indices[p] + 1] = similarities[top_indices[q] + 1])
                => top_indices[p] < top_indices[q]

\* C20 amended: the ranking is a permutation of the member indices in non-increasing
\* similarity, every member of strictly higher similarity before every member of
\* lower similarity; the order of members of equal similarity is not fixed.
C20_DescendingTiesFree ==
    rank_pc # "call" =>
        /\ {top_indices[p] : p \in DOMAIN top_indices} = 0..(Len(similarities) - 1)
        /\ Len(top_indices) = Len(similarities)
        /\ \A i, j \in 1..Len(similarities) :
              similarities[i] > similarities[j] =>
                  \E p, q \in DOMAIN top_indices :
                      p < q /\ top_indices[p] = i - 1 /\ top_indices[q] = j - 1

\* Members 0 and 1 tie below member 2 and were returned with member 1 before member 0.
C20_Witness ==
    /\ rank_pc = "returned"
    /\ similarities = <<60, 60, 90>>
    /\ top_indices = <<2, 1, 0>>

\* C11 as stated: the record appended for the subcluster holds the summaries and the
\* resolutions in the order get_top_entries_by_centroid returned them.
C11_RecordInRankedOrder ==
    rank_pc = "stored" =>
        LET s == global_subcluster_stats[Len(global_subcluster_stats)]
        IN  /\ s.summaries = top_summaries
            /\ s.resolutions = top_resolutions

\* ------------------------------------------------------------------ save_subclusters
\* A text is a sequence of symbols; " " is whitespace and "|" the pipe character.
\* " ||| ".join(texts)
Delimiter == <<" ", "|", "|", "|", " ">>
RECURSIVE Join(_, _)
Join(texts, sep) ==
    IF texts = <<>> THEN <<>>
    ELSE IF Len(texts) = 1 THEN texts[1]
    ELSE texts[1] \o sep \o Join(Tail(texts), sep)

\* csv.writer.writerow for every record of the returned list.
save_subclusters(subclusters) ==
    [p \in DOMAIN subclusters |->
        LET s == subclusters[p]
        IN  [Cluster |-> s.cluster,
             Subcluster_ID |-> s.subcluster_id,
             Num_Summaries |-> Len(s.summaries),
             Num_Resolutions |-> Len(s.resolutions),
             All_Summaries |-> Join(s.summaries, Delimiter),
             All_Resolutions |-> IF s.resolutions # <<>>
                                 THEN Join(s.resolutions, Delimiter)
                                 ELSE <<>>]]

\* helper.save_subclusters(top_faq_subclusters=ranked_subclusters, ...)
SaveSubclusters ==
    /\ sel_pc = "returned"
    /\ save_pc = "idle"
    /\ csv_file' = save_subclusters(Returned)
    /\ save_pc' = "saved"
    /\ UNCHANGED global_subcluster_stats
    /\ UNCHANGED <<bestk_vars, gen_vars, sel_vars, rank_vars, faq_vars, coh_vars, api_vars>>

\* ------------------------------------------------------------------ select_subclusters.py __main__
\* generate_subclusters has returned: the loop over the parent clusters is over.
LoopStarted == gen_pc \in {"loop", "returned"} /\ gi >= 1
LoopFinished == gen_pc = "returned"

\* ranked_subclusters = gen_subc.select_top_subclusters(subclusters_stats)
MainSelect ==
    /\ LoopFinished
    /\ sel_pc = "idle"
    /\ SelectCall

InitMain == InitGen
NextMain == ProcessCluster \/ GenReturn \/ MainSelect \/ SaveSubclusters
SpecMain == InitMain /\ [][NextMain]_vars

\* C16: select_top_subclusters is called at most once, and once called the loop over
\* the parent clusters has finished with every cluster taken; after the call the
\* accumulator gains no record; when the run ends with the file saved there was
\* exactly one call.
C16_RankOnceAfterLoop ==
    /\ [](/\ runs <= 1
          /\ sel_pc # "idle" => (gen_pc = "returned" /\ gi = Len(cluster_counts))
          /\ save_pc = "saved" => runs = 1)
    /\ [][sel_pc # "idle" =>
             /\ Len(global_subcluster_stats') = Len(global_subcluster_stats)
             /\ gi' = gi /\ gen_pc' = gen_pc]_vars

\* Two parent clusters were subclustered, the records ranked and the selection saved.
C16_Witness ==
    /\ save_pc = "saved" /\ runs = 1
    /\ Len(ks) = 2 /\ ks[1] >= 2 /\ ks[2] >= 2
    /\ csv_file # <<>>

\* ------------------------------------------------------------------ faq_gen.py: load
\* x.split('|||'): the pieces of x between the non-overlapping occurrences of the
\* separator, found left to right; always at least one piece.
SplitSeparator == <<"|", "|", "|">>
RECURSIVE Split(_, _)
Split(x, sep) ==
    LET hits == {p \in 1..(Len(x) - Len(sep) + 1) : SubSeq(x, p, p + Len(sep) - 1) = sep}
    IN  IF hits = {} THEN <<x>>
        ELSE <<SubSeq(x, 1, SetMin(hits) - 1)>>
             \o Split(SubSeq(x, SetMin(hits) + Len(sep), Len(x)), sep)

\* s.strip()
Strip(t) ==
    LET solid == {p \in DOMAIN t : t[p] # " "}
    IN  IF solid = {} THEN <<>> ELSE SubSeq(t, SetMin(solid), SetMax(solid))

\* [s.strip() for s in x.split('|||') if s.strip()]
ParseList(x) ==
    LET pieces == Split(x, SplitSeparator)
    IN  SelectSeq([p \in DOMAIN pieces |-> Strip(pieces[p])], LAMBDA t : t # <<>>)

\* pd.read_csv of a text cell: an empty field is read as NaN (a float).
ReadCsvField(t) == IF t = <<>> THEN "NaN" ELSE t

\* df_tickets = pd.read_csv(...) and the two apply(lambda x: ... x.split('|||') ...):
\* NaN has no split, which raises AttributeError.
FaqLoad ==
    /\ save_pc = "saved"
    /\ faq_pc = "idle"
    /\ LET frame == [p \in DOMAIN csv_file |->
                        [Cluster |-> csv_file[p].Cluster,
                         Subcluster_ID |-> csv_file[p].Subcluster_ID,
                         Num_Summaries |-> csv_file[p].Num_Summaries,
                         Num_Resolutions |-> csv_file[p].Num_Resolutions,
                         All_Summaries |-> ReadCsvField(csv_file[p].All_Summaries),
                         All_Resolutions |-> ReadCsvField(csv_file[p].All_Resolutions)]]
       IN  IF \E p \in DOMAIN frame :
                 frame[p].All_Summaries = "NaN" \/ frame[p].All_Resolutions = "NaN"
           THEN /\ faq_pc' = "error"
                /\ UNCHANGED df_tickets
           ELSE /\ faq_pc' = "loop"
                /\ df_tickets' =
                       [p \in DOMAIN frame |->
                           [frame[p] EXCEPT !.All_Summaries = ParseList(@),
                                            !.All_Resolutions = ParseList(@)]]
    /\ UNCHANGED <<faq_i, faq_entries, body_lines, global_subcluster_stats>>
    /\ UNCHANGED <<bestk_vars, gen_vars, sel_vars, rank_vars, save_vars, coh_vars, api_vars>>

\* ---- the selections save_subclusters is called on
\* The texts "a", "b", "a|||b", " a" and " ".
Texts == {<<"a">>, <<"b">>, <<"a", "|", "|", "|", "b">>, <<" ", "a">>, <<" ">>}
\* A record of five summaries, the first two of any text, and of up to MaxItems
\* resolutions (the rows without a resolution are dropped before).
CsvRecords ==
    {[cluster |-> 11, subcluster_id |-> 0,
      summaries |-> <<t1, t2, <<"a">>, <<"b">>, <<"a">>>>,
      resolutions |-> r, size |-> 5] :
        t1 \in Texts, t2 \in Texts,
        r \in UNION {[1..n -> Texts] : n \in 0..MaxItems}}

InitCsv ==
    /\ global_subcluster_stats \in {<<s>> : s \in CsvRecords}
    /\ top_faq_subclusters = <<1>> /\ sel_pc = "returned" /\ runs = 1 /\ first_run = <<>>
    /\ BestKIdle /\ GenIdle /\ RankIdle /\ SaveIdle /\ FaqIdle /\ CohIdle /\ ApiIdle

NextCsv == SaveSubclusters \/ FaqLoad
SpecCsv == InitCsv /\ [][NextCsv]_vars

\* C17 as stated: for every saved record, what faq_gen reads back is the list of
\* summaries (of resolutions) that was saved, in order, as many as the Num_Summaries
\* (Num_Resolutions) column says.
C17_DelimiterRoundTrip ==
    faq_pc # "idle" =>
        /\ faq_pc = "loop"
        /\ Len(df_tickets) = Len(top_faq_subclusters)
        /\ \A p \in DOMAIN df_tickets :
              /\ df_tickets[p].All_Summaries = Returned[p].summaries
              /\ df_tickets[p].All_Resolutions = Returned[p].resolutions
              /\ Len(df_tickets[p].All_Summaries) = df_tickets[p].Num_Summaries
              /\ Len(df_tickets[p].All_Resolutions) = df_tickets[p].Num_Resolutions

\* ------------------------------------------------------------------ faq_gen.py: generation loop
\* What one requests.post of the candidate loop comes to: status 200 with a Q/A the
\* regular expression finds, status 200 without one, another status, an exception.
\* The five requests of one subcluster: all good, none good in each way, one good.
CandidateOutcomes ==
    {[j \in 1..NUM_CANDIDATES |-> "match"],
     [j \in 1..NUM_CANDIDATES |-> "no_match"],
     [j \in 1..NUM_CANDIDATES |-> "status"],
     [j \in 1..NUM_CANDIDATES |-> IF j = NUM_CANDIDATES THEN "match" ELSE "status"],
     [j \in 1..NUM_CANDIDATES |-> IF j = 2 THEN "raise" ELSE "match"]}
\* merge_faq_candidates: a merged entry, or None (status not 200, or no Q/A found).
MergeOutcomes == {"merged", "none"}

\* candidate_faqs after the inner loop: the requests that matched, by their number.
CandidateFaqs(outcome) ==
    SelectSeq([j \in 1..NUM_CANDIDATES |-> j], LAMBDA j : outcome[j] = "match")

\* num = min(15, len(df_tickets))
Num == IF Len(df_tickets) < FAQ_LIMIT THEN Len(df_tickets) ELSE FAQ_LIMIT

\* One iteration of `for i in range(num)`.  The merged entry is kept as the row it
\* was made for.  An entry is missing for at most MaxMissing rows of one run.
FaqIteration ==
    /\ faq_pc = "loop"
    /\ faq_i < Num
    /\ body_lines' = build_faq_prompt(df_tickets[faq_i + 1].All_Summaries,
                                      df_tickets[faq_i + 1].All_Resolutions)
    /\ \E outcome \in CandidateOutcomes, merge \in MergeOutcomes :
          LET candidate_faqs == CandidateFaqs(outcome)
              appended == candidate_faqs # <<>> /\ merge = "merged"
          IN  /\ appended \/ faq_i - Len(faq_entries) < MaxMissing
              /\ IF \E j \in 1..NUM_CANDIDATES : outcome[j] = "raise"
                 THEN /\ faq_pc' = "error"
                      /\ UNCHANGED <<faq_i, faq_entries>>
                 ELSE /\ faq_pc' = "loop"
                      /\ faq_i' = faq_i + 1
                      /\ faq_entries' =
                             IF appended
                             THEN Append(faq_entries, [row |-> faq_i + 1])
                             ELSE faq_entries
    /\ UNCHANGED <<df_tickets, global_subcluster_stats>>
    /\ UNCHANGED <<bestk_vars, gen_vars, sel_vars, rank_vars, save_vars, coh_vars, api_vars>>

\* The loop is over; the entries are written to the Markdown file.
FaqDone ==
    /\ faq_pc = "loop"
    /\ faq_i = Num
    /\ faq_pc' = "done"
    /\ UNCHANGED <<df_tickets, faq_i, faq_entries, body_lines, global_subcluster_stats>>
    /\ UNCHANGED <<bestk_vars, gen_vars, sel_vars, rank_vars, save_vars, coh_vars, api_vars>>

\* The frames the loop runs on: 0 to NUM_FAQs rows, as select_top_subclusters can return.
InitFaq ==
    /\ \E n \in 0..NUM_FAQs :
          df_tickets = [p \in 1..n |->
                           [Cluster |-> 11, Subcluster_ID |-> p,
                            Num_Summaries |-> 5, Num_Resolutions |-> 1,
                            All_Summaries |-> [q \in 1..5 |-> <<"s", 5 * p + q>>],
                            All_Resolutions |-> <<<<"r", p>>>>]]
    /\ faq_i = 0 /\ faq_entries = <<>> /\ faq_pc = "loop" /\ body_lines = <<>>
    /\ csv_file = <<>> /\ save_pc = "saved"
    /\ global_subcluster_stats = <<>>
    /\ BestKIdle /\ GenIdle /\ SelIdle /\ RankIdle /\ CohIdle /\ ApiIdle

NextFaq == FaqIteration \/ FaqDone
SpecFaq == InitFaq /\ [][NextFaq]_vars

\* C18 as stated: when the generation loop is over, faq_entries holds one entry for
\* each row of df_tickets, in the order of the rows.
C18_OneEntryPerRow ==
    faq_pc = "done" =>
        /\ Len(faq_entries) = Len(df_tickets)
        /\ \A p \in DOMAIN faq_entries : faq_entries[p].row = p

\* The positions of the ranking whose member has a resolution.
WithResolution == {q \in DOMAIN top_indices : df[top_indices[q] + 1].resolution # "NaN"}

\* C21: the summaries returned are those of all N members, one per member, in the
\* order of the ranking; the resolutions returned are those of the ranked members
\* that have one, in the order of the ranking.
C21_AllSummariesRankedResolutions ==
    rank_pc # "call" =>
        /\ Len(top_summaries) = Len(df)
        /\ \A p \in DOMAIN top_summaries :
              top_summaries[p] = df[top_indices[p] + 1].issue_summary
        /\ \A i \in DOMAIN df :
              Cardinality({p \in DOMAIN top_summaries :
                              top_summaries[p] = df[i].issue_summary}) = 1
        /\ Len(top_resolutions) = Cardinality(WithResolution)
        /\ \A q \in WithResolution :
              top_resolutions[Cardinality({r \in WithResolution : r <= q})]
                  = df[top_indices[q] + 1].resolution

\* Three members ranked 2, 0, 1; member 0 has no resolution.
C21_Witness ==
    /\ rank_pc = "returned"
    /\ top_indices = <<2, 0, 1>>
    /\ df[1].resolution = "NaN"
    /\ top_resolutions = <<<<"res", 2>>, <<"res", 1>>>>

\* C22: a parent cluster subclustered with k has exactly k records in the
\* accumulator, with subcluster_id 0, 1, ..., k-1 in this order, and no two records of
\* the accumulator have the same cluster and subcluster_id.
C22_SubclusterIdsUnique ==
    /\ \A i \in 1..Len(ks) : ks[i] >= 2 =>
          /\ Len(RecordsOf(i)) = ks[i]
          /\ \A j \in DOMAIN RecordsOf(i) : RecordsOf(i)[j].subcluster_id = j - 1
    /\ \A a, b \in DOMAIN global_subcluster_stats :
          (/\ global_subcluster_stats[a].cluster = global_subcluster_stats[b].cluster
           /\ global_subcluster_stats[a].subcluster_id = global_subcluster_stats[b].subcluster_id)
              => a = b

\* Two parent clusters were subclustered, with two and with three subclusters.
C22_Witness ==
    /\ gen_pc = "returned"
    /\ Len(ks) = 2 /\ ks[1] = 2 /\ ks[2] = 3
    /\ Len(global_subcluster_stats) = 5

\* C23: every record of the accumulator comes from a parent cluster subclustered
\* with k >= 2 and has k - 1 >= 1 siblings there, so its list of separations is
\* never empty.
C23_AlwaysASibling ==
    /\ \A i \in DOMAIN global_subcluster_stats :
          /\ Len(Siblings(i)) >= 1
          /\ \E c \in 1..Len(ks) :
                /\ cluster_counts[c].cluster = global_subcluster_stats[i].cluster
                /\ ks[c] >= 2
                /\ Len(Siblings(i)) = ks[c] - 1
    /\ \A c \in 1..Len(ks) : ks[c] < 2 => RecordsOf(c) = <<>>

\* A cluster for which k = 1 was skipped, after one subclustered in two.
C23_Witness ==
    /\ Len(ks) = 2 /\ ks[1] = 2 /\ ks[2] = 1
    /\ Len(global_subcluster_stats) = 2

\* ------------------------------------------------------------------ SpecCoh
\* One call of compute_cohesion(embeddings).  normalize() on a matrix of no rows
\* raises ValueError; on one row the division is 0.0 / 0, which numpy returns as nan.
ComputeCohesion ==
    /\ coh_pc = "call"
    /\ IF Len(coh_embeddings) = 0
       THEN coh_pc' = "error" /\ UNCHANGED coh_result
       ELSE coh_pc' = "returned" /\ coh_result' = compute_cohesion(coh_embeddings)
    /\ UNCHANGED <<coh_embeddings, global_subcluster_stats>>
    /\ UNCHANGED <<bestk_vars, gen_vars, sel_vars, rank_vars, save_vars, faq_vars, api_vars>>

\* Every matrix of up to MaxVectors rows, each row one of the unit vectors.
InitCoh ==
    /\ coh_embeddings \in UNION {[1..n -> DOMAIN UnitVectors] : n \in 0..MaxVectors}
    /\ coh_result = <<0, 1>> /\ coh_pc = "call"
    /\ global_subcluster_stats = <<>>
    /\ BestKIdle /\ GenIdle /\ SelIdle /\ RankIdle /\ SaveIdle /\ FaqIdle /\ ApiIdle

NextCoh == ComputeCohesion
SpecCoh == InitCoh /\ [][NextCoh]_vars

\* Sum of the cosine similarities, in 25ths, over the ordered pairs of different rows
\* of the matrix.
DistinctPairsSim ==
    LET n == Len(coh_embeddings)
    IN  SumSeq([m \in 1..(n * n) |->
                   LET p == 1 + ((m - 1) \div n)
                       q == 1 + ((m - 1) % n)
                   IN  IF p = q THEN 0
                       ELSE cosine_similarity(coh_embeddings[p], coh_embeddings[q])])

\* C24: for N >= 2 rows the value returned is the sum of the similarities of the
\* N * (N - 1) ordered pairs of different rows, divided by N * (N - 1).
C24_CohesionMeanOfDistinctPairs ==
    (coh_pc = "returned" /\ Len(coh_embeddings) >= 2) =>
        LET n == Len(coh_embeddings)
        IN  /\ coh_result[2] > 0
            /\ coh_result[1] * 25 * n * (n - 1) = DistinctPairsSim * coh_result[2]

\* Three rows in three directions.
C24_Witness ==
    /\ coh_pc = "returned"
    /\ coh_embeddings = <<1, 3, 6>>

C26_CohesionGuarded ==
    (coh_pc # "call" /\ Len(coh_embeddings) < 2) => coh_pc = "error"

\* ------------------------------------------------------------------ SpecApi
\* process_tickets.py: the batch loop over the DataLoader, call_genai_api, the retry
\* pass and the assignment of the results to df_tickets["ticket_summary"].
BATCH_SIZE == 2
retries == 7
max_retries == 5

\* The prompt of a row and what a 200 can carry for it: nothing, the summary, or the
\* prompt repeated before the summary.  A text is a sequence of symbols.
PromptText(p) == <<"prompt", p>>
Contents(p) == {<<>>, <<"content", p>>, PromptText(p) \o <<"content", p>>}

\* What one requests.post can end in.
Outcomes(p) ==
    {[status |-> "200", content |-> c] : c \in Contents(p)}
        \cup {[status |-> st, content |-> <<>>] : st \in {"404", "other", "exception"}}

\* The branches of the attempt loop that end in break.
BreaksOn200Only(st) == st = "200"
Breaks(st) == st \in {"200", "404", "exception"}

\* What the branch appends to responses.
Appended(o) == IF o.status = "200" THEN o.content ELSE <<>>

\* The else branch of the attempt loop: all attempts failed.
ExhaustedNoAppend(resp) == resp
Exhausted(resp) == Append(resp, <<>>)

\* if norm_o.startswith(norm_p): output = output[len(prompt):].strip()
Cleaned(p, output) ==
    LET prompt == PromptText(p)
    IN  IF Len(output) >= Len(prompt) /\ SubSeq(output, 1, Len(prompt)) = prompt
        THEN SubSeq(output, Len(prompt) + 1, Len(output))
        ELSE output

\* First lines of call_genai_api(prompts).
Called(call_prompts) ==
    /\ api_prompts' = call_prompts
    /\ api_i' = 1 /\ attempt' = 0 /\ responses' = <<>>
    /\ api_log' = [j \in 1..Len(call_prompts) |-> <<>>]

\* for batch in dataloader: outputs = call_genai_api(batch)
BatchNext ==
    /\ api_pc = "batch" /\ batch_start < n_tickets
    /\ LET last == IF batch_start + BATCH_SIZE < n_tickets
                   THEN batch_start + BATCH_SIZE ELSE n_tickets
       IN  /\ Called([j \in 1..(last - batch_start) |-> batch_start + j])
           /\ batch_start' = last
    /\ api_pc' = "call"
    /\ UNCHANGED <<n_tickets, results, prompts, retry_i, retry_attempt, ticket_summary>>
    /\ UNCHANGED <<global_subcluster_stats, bestk_vars, gen_vars, sel_vars, rank_vars,
                   save_vars, faq_vars, coh_vars>>

\* One requests.post of the attempt loop and the branch taken on its outcome; the
\* last failed attempt runs the loop's else branch.
Request ==
    /\ api_pc \in {"call", "retry_call"}
    /\ api_i <= Len(api_prompts) /\ attempt < retries
    /\ \E o \in Outcomes(api_prompts[api_i]) :
          /\ api_log' = [api_log EXCEPT ![api_i] = Append(@, o)]
          /\ IF Breaks(o.status)
             THEN /\ responses' = Append(responses, Appended(o))
                  /\ api_i' = api_i + 1 /\ attempt' = 0
             ELSE IF attempt + 1 = retries
             THEN /\ responses' = Exhausted(responses)
                  /\ api_i' = api_i + 1 /\ attempt' = 0
             ELSE /\ attempt' = attempt + 1
                  /\ UNCHANGED <<responses, api_i>>
    /\ UNCHANGED <<n_tickets, batch_start, api_prompts, results, prompts, retry_i,
                   retry_attempt, ticket_summary, api_pc>>
    /\ UNCHANGED <<global_subcluster_stats, bestk_vars, gen_vars, sel_vars, rank_vars,
                   save_vars, faq_vars, coh_vars>>

\* return responses
Return ==
    /\ api_pc \in {"call", "retry_call"}
    /\ api_i > Len(api_prompts)
    /\ api_pc' = IF api_pc = "call" THEN "returned" ELSE "retry_returned"
    /\ UNCHANGED <<n_tickets, batch_start, api_prompts, api_i, attempt, responses, api_log,
                   results, prompts, retry_i, retry_attempt, ticket_summary>>
    /\ UNCHANGED <<global_subcluster_stats, bestk_vars, gen_vars, sel_vars, rank_vars,
                   save_vars, faq_vars, coh_vars>>

\* for prompt, output in zip(batch, outputs): results.append(...); prompts.append(prompt)
BatchCollect ==
    /\ api_pc = "returned"
    /\ LET m == IF Len(responses) < Len(api_prompts) THEN Len(responses)
                ELSE Len(api_prompts)
       IN  /\ results' = results \o [j \in 1..m |-> Cleaned(api_prompts[j], responses[j])]
           /\ prompts' = prompts \o [j \in 1..m |-> api_prompts[j]]
    /\ api_pc' = "batch"
    /\ UNCHANGED <<n_tickets, batch_start, api_prompts, api_i, attempt, responses, api_log,
                   retry_i, retry_attempt, ticket_summary>>
    /\ UNCHANGED <<global_subcluster_stats, bestk_vars, gen_vars, sel_vars, rank_vars,
                   save_vars, faq_vars, coh_vars>>

\* The DataLoader is exhausted: the retry pass starts.
BatchEnd ==
    /\ api_pc = "batch" /\ batch_start = n_tickets
    /\ api_pc' = "retry" /\ retry_i' = 1 /\ retry_attempt' = 0
    /\ UNCHANGED <<n_tickets, batch_start, api_prompts, api_i, attempt, responses, api_log,
                   results, prompts, ticket_summary>>
    /\ UNCHANGED <<global_subcluster_stats, bestk_vars, gen_vars, sel_vars, rank_vars,
                   save_vars, faq_vars, coh_vars>>

\* for i, (prompt, result) in enumerate(zip(prompts, results)): an empty result is
\* asked again, up to max_retries times.
RetryStep ==
    /\ api_pc = "retry" /\ retry_i <= Len(results)
    /\ IF results[retry_i] = <<>> /\ retry_attempt < max_retries
       THEN /\ Called(<<prompts[retry_i]>>)
            /\ api_pc' = "retry_call"
            /\ UNCHANGED <<retry_i, retry_attempt>>
       ELSE /\ retry_i' = retry_i + 1 /\ retry_attempt' = 0
            /\ UNCHANGED <<api_prompts, api_i, attempt, responses, api_log, api_pc>>
    /\ UNCHANGED <<n_tickets, batch_start, results, prompts, ticket_summary>>
    /\ UNCHANGED <<global_subcluster_stats, bestk_vars, gen_vars, sel_vars, rank_vars,
                   save_vars, faq_vars, coh_vars>>

\* retry = call_genai_api([prompt])[0]; if retry.strip(): results[i] = retry; break
RetryCollect ==
    /\ api_pc = "retry_returned"
    /\ IF Len(responses) = 0
       THEN /\ api_pc' = "error"
            /\ UNCHANGED <<results, retry_i, retry_attempt>>
       ELSE /\ api_pc' = "retry"
            /\ IF responses[1] # <<>>
               THEN /\ results' = [results EXCEPT
                                      ![retry_i] = Cleaned(prompts[retry_i], responses[1])]
                    /\ retry_i' = retry_i + 1 /\ retry_attempt' = 0
               ELSE /\ retry_attempt' = retry_attempt + 1
                    /\ UNCHANGED <<results, retry_i>>
    /\ UNCHANGED <<n_tickets, batch_start, api_prompts, api_i, attempt, responses, api_log,
                   prompts, ticket_summary>>
    /\ UNCHANGED <<global_subcluster_stats, bestk_vars, gen_vars, sel_vars, rank_vars,
                   save_vars, faq_vars, coh_vars>>

\* df_tickets["ticket_summary"] = results; pandas raises when the lengths differ.
Assign ==
    /\ api_pc = "retry" /\ retry_i > Len(results)
    /\ IF Len(results) = n_tickets
       THEN ticket_summary' = results /\ api_pc' = "assigned"
       ELSE api_pc' = "error" /\ UNCHANGED ticket_summary
    /\ UNCHANGED <<n_tickets, batch_start, api_prompts, api_i, attempt, responses, api_log,
                   results, prompts, retry_i, retry_attempt>>
    /\ UNCHANGED <<global_subcluster_stats, bestk_vars, gen_vars, sel_vars, rank_vars,
                   save_vars, faq_vars, coh_vars>>

InitApi ==
    /\ n_tickets \in 0..MaxPrompts
    /\ batch_start = 0 /\ api_prompts = <<>> /\ api_i = 0 /\ attempt = 0
    /\ responses = <<>> /\ api_log = <<>> /\ results = <<>> /\ prompts = <<>>
    /\ retry_i = 0 /\ retry_attempt = 0 /\ ticket_summary = <<>> /\ api_pc = "batch"
    /\ global_subcluster_stats = <<>>
    /\ BestKIdle /\ GenIdle /\ SelIdle /\ RankIdle /\ SaveIdle /\ FaqIdle /\ CohIdle

NextApi ==
    \/ BatchNext \/ Request \/ Return \/ BatchCollect \/ BatchEnd
    \/ RetryStep \/ RetryCollect \/ Assign
SpecApi == InitApi /\ [][NextApi]_vars

\* The scheduler runs the script to its end: a step that can be taken is taken.
SpecApiFair == SpecApi /\ WF_vars(NextApi)

\* The prompt at position j of the call got a 200.
Got200(j) == \E m \in DOMAIN api_log[j] : api_log[j][m].status = "200"

\* The list returned has one entry per prompt, in order: the content of the 200 the
\* prompt got, and the empty string when it got none.
OneEntryPerPrompt ==
    /\ Len(responses) = Len(api_prompts)
    /\ \A j \in DOMAIN api_prompts :
          IF Got200(j)
          THEN \E m \in DOMAIN api_log[j] :
                  api_log[j][m].status = "200" /\ responses[j] = api_log[j][m].content
          ELSE responses[j] = <<>>

\* The entry at position r is empty or the summary generated for row r.
AlignedWithRows(list) ==
    \A r \in DOMAIN list : list[r] \in {<<>>, <<"content", r>>}

RequestsBounded ==
    \A j \in DOMAIN api_log :
        /\ Len(api_log[j]) <= retries
        /\ \A m \in 1..(Len(api_log[j]) - 1) : api_log[j][m].status = "other"
        /\ j < api_i =>
              /\ api_log[j] # <<>>
              /\ \/ api_log[j][Len(api_log[j])].status \in {"200", "404", "exception"}
                 \/ Len(api_log[j]) = retries
        /\ j = api_i => Len(api_log[j]) = attempt
        /\ j > api_i => api_log[j] = <<>>

C29_PairsOfSameTicket ==
    rank_pc = "prompted" =>
        \A p \in DOMAIN body_lines : body_lines[p].summary = body_lines[p].resolution[2]

====
